---- MODULE Spec2Model ----
(***************************************************************************)
(* Model of the messaging client of go-http-service-template: the NATS     *)
(* client wrapper (common/messaging), its subscription helpers and the     *)
(* HTTP publish handler that drives it.                                    *)
(*                                                                         *)
(* The broker client library (nats.go) is the environment.  What the model *)
(* assumes of it:                                                          *)
(*  - a connection is connected, reconnecting or closed; while it is       *)
(*    reconnecting the library buffers outgoing data and flushes it on     *)
(*    reconnect; once closed every call fails;                             *)
(*  - the acknowledgement future of an async publish resolves at most once *)
(*    and hands its result to ONE receiver: Ok() and Err() are channels    *)
(*    of capacity one that get a single value and are never closed;        *)
(*  - a Go select with several ready cases takes any of them.              *)
(***************************************************************************)
EXTENDS Naturals, Sequences, FiniteSets, TLC

VARIABLES
    natsClient,   \* Module.NatsClient: "nil" or "set"
    conn,         \* NatsClient.conn: "nil", "connected", "reconnecting", "closed"
    js,           \* NatsClient.js # nil
    config,       \* NatsClient.config
    given,        \* the Config the last NewNatsClient call was handed
    mu,           \* NatsClient.mu: 0 when free, else the goroutine that holds it
    threads,      \* goroutines calling Subscribe, QueueSubscribe or Close
    subscribers,  \* NatsClient.subscribers: set of <<key, handle>>
    subs,         \* broker-side subscriptions, indexed by handle
    wire,         \* number of publishes/requests the broker has received
    pending,      \* number of publishes held in the reconnect buffer
    futures,      \* acknowledgement futures of PublishAsync, with their wait task
    req,          \* the HTTP publish request in flight
    now,          \* wall clock, in seconds
    userResp,     \* the last request to CreateUser and its response
    appEnv,       \* the process environment's APP_ENV ("" when unset)
    router,       \* the chi.Router the last Messaging.Router call returned
    served,       \* the last request dispatched on that router and what it reached
    proc,         \* the service process: main's position, HTTP server, database pool
    streams,      \* broker: stream name -> subject set, or NoStream
    lastEnsure,   \* outcome of the last EnsureStream / ensureStream call
    consumers,    \* broker: durable consumers
    jsMsgs,       \* deliveries to durable consumers
    last          \* outcome of the last call made on the client

clientVars == <<natsClient, conn, js, config, given, mu, threads>>
subVars    == <<subscribers, subs>>
pubVars    == <<wire, pending, futures>>
httpVars   == <<req, now, userResp, appEnv, router, served, proc>>
streamVars == <<streams, lastEnsure>>
consVars   == <<consumers, jsMsgs>>
vars == <<natsClient, conn, js, config, given, mu, threads, subscribers, subs, wire, pending, futures,
          req, now, userResp, appEnv, router, served, proc, streams, lastEnsure, consumers, jsMsgs, last>>

(***************************************************************************)
(* Bounds of the model.                                                    *)
(***************************************************************************)
MaxPublishes == 1
MaxSent == 2
MaxTime == 5
MaxSubs == 2
MaxDeliveries == 2
MaxConsumers == 2
MaxJsDeliveries == 2

(***************************************************************************)
(* Program constants.                                                      *)
(***************************************************************************)
AckWaitBound == 5
HandlerTimeout == 5
StatusCreated == 201
StatusAccepted == 202
StatusBadRequest == 400
StatusRequestTimeout == 408
StatusInternalServerError == 500

Subjects == {"a", "b"}
Queues == {"q"}
NoStream == {}
StreamNames == {"MESSAGES"}

\* A call on the client: the connection's state when it was made, what it
\* returned, and whether it put data on the connection (sent or buffered).
NoCall == [op |-> "none", connAt |-> "nil", res |-> "none", issued |-> FALSE]
Call(op, res, issued) == [op |-> op, connAt |-> conn, res |-> res, issued |-> issued]

\* c.conn == nil || !c.conn.IsConnected()
NotConnected == conn = "nil" \/ conn # "connected"

(***************************************************************************)
(* Connection events, reported by the library through the callbacks that   *)
(* connect() registers.                                                    *)
(***************************************************************************)
Disconnected ==
    /\ conn = "connected"
    /\ conn' = "reconnecting"
    /\ UNCHANGED <<natsClient, js, config, given, mu, threads, subVars, pubVars, httpVars, streamVars, consVars, last>>

\* On reconnect the library flushes its reconnect buffer to the broker.
Reconnected ==
    /\ conn = "reconnecting"
    /\ conn' = "connected"
    /\ wire' = wire + pending
    /\ pending' = 0
    /\ futures' = [f \in DOMAIN futures |-> [futures[f] EXCEPT !.sent = TRUE]]
    /\ UNCHANGED <<natsClient, js, config, given, mu, threads, subVars, httpVars, streamVars, consVars, last>>

\* MaxReconnects exhausted: the library closes the connection and drops the buffer.
ConnClosed ==
    /\ conn = "reconnecting"
    /\ conn' = "closed"
    /\ pending' = 0
    /\ subs' = [h \in DOMAIN subs |-> [subs[h] EXCEPT !.state = "closed"]]
    /\ UNCHANGED <<natsClient, js, config, given, mu, threads, subscribers, wire, futures, httpVars, streamVars,
                   consVars, last>>

(***************************************************************************)
(* NatsClient.Publish and NatsClient.Request                               *)
(***************************************************************************)
Publish(subject) ==
    /\ natsClient = "set"
    /\ wire + pending < MaxSent
    /\ IF NotConnected
         THEN /\ last' = Call("Publish", "not_connected", FALSE)
              /\ UNCHANGED wire
         ELSE \E sent \in BOOLEAN :
                IF sent
                  THEN /\ wire' = wire + 1
                       /\ last' = Call("Publish", "ok", TRUE)
                  ELSE /\ last' = Call("Publish", "send_failed", FALSE)
                       /\ UNCHANGED wire
    /\ UNCHANGED <<clientVars, subVars, pending, futures, httpVars, streamVars, consVars>>

Request(subject) ==
    /\ natsClient = "set"
    /\ wire + pending < MaxSent
    /\ IF NotConnected
         THEN /\ last' = Call("Request", "not_connected", FALSE)
              /\ UNCHANGED wire
         ELSE /\ wire' = wire + 1
              /\ \E reply \in {"reply", "request_failed"} :
                    last' = Call("Request", reply, TRUE)
    /\ UNCHANGED <<clientVars, subVars, pending, futures, httpVars, streamVars, consVars>>

(***************************************************************************)
(* Stream provisioning: NatsClient.GetStream, NatsClient.CreateStream and  *)
(* the two ensure functions.  lookup and create are the broker's answers.  *)
(***************************************************************************)
LookupOutcomes(name) ==
    (IF conn = "connected"
       THEN (IF streams[name] # NoStream THEN {"found"} ELSE {"not_found"})
       ELSE {}) \cup {"lookup_failed"}

CreateOutcomes ==
    (IF conn = "connected" THEN {"ok", "info_failed"} ELSE {}) \cup {"rejected"}

\* NatsClient.GetStream: the error it returns, or "ok"
GetStream(name, lookup) ==
    IF ~js THEN "js_not_initialized"
    ELSE IF lookup = "found" THEN "ok"
    ELSE "get_stream_failed"

\* NatsClient.CreateStream: the error it returns, or "ok"
CreateStream(create) ==
    IF ~js THEN "js_not_initialized"
    ELSE IF create = "rejected" THEN "create_stream_failed"
    ELSE IF create = "info_failed" THEN "stream_info_failed"
    ELSE "ok"

\* js.CreateOrUpdateStream reached the broker and was applied
StreamWritten(create) == js /\ create \in {"ok", "info_failed"}

\* EnsureStream's first step: `stream, err := client.GetStream(ctx, name)`,
\* `if err == nil { return stream, nil }`.
\* Mutant: the existing stream is never returned, the create path always runs.
EnsureStreamFound_Never(name, lookup) == FALSE

EnsureStreamFound(name, lookup) == GetStream(name, lookup) = "ok"

EnsureStreamResult(name, lookup, create) ==
    IF EnsureStreamFound(name, lookup) THEN "existing"
    ELSE IF CreateStream(create) = "ok" THEN "created"
    ELSE CreateStream(create)

\* client.CreateStream got as far as js.CreateOrUpdateStream
EnsureStreamIssuesCreate(name, lookup) ==
    ~EnsureStreamFound(name, lookup) /\ js

\* EnsureStream of the messaging package
EnsureStream(name, subjects, lookup, create) ==
    /\ streams' = IF EnsureStreamIssuesCreate(name, lookup) /\ StreamWritten(create)
                    THEN [streams EXCEPT ![name] = subjects]
                    ELSE streams
    /\ lastEnsure' = [name |-> name, requested |-> subjects, before |-> streams[name],
                      lookup |-> lookup,
                      res |-> EnsureStreamResult(name, lookup, create),
                      createIssued |-> EnsureStreamIssuesCreate(name, lookup)]

\* ensureStream of the HTTP module: the same steps (it adds a MaxAge of 24 h
\* to the configuration of a stream it creates).
ensureStream(name, subjects, lookup, create) ==
    EnsureStream(name, subjects, lookup, create)

(***************************************************************************)
(* NatsClient.PublishAsync.  The call runs up to the start of the ack-wait *)
(* goroutine; its return runs the deferred cancel() of the 5 s context the *)
(* goroutine selects on.                                                   *)
(***************************************************************************)
NewFuture(subject, owner) ==
    [subject |-> subject, owner |-> owner, sent |-> conn = "connected",
     ack |-> "pending", ackAt |-> 0, stream |-> "", okCh |-> FALSE, errCh |-> FALSE,
     deadline |-> now + AckWaitBound, cancelled |-> FALSE, returned |-> FALSE,
     task |-> "waiting"]

\* js.PublishAsync fails on a closed connection; libOk is its answer otherwise
PublishAsyncResult(libOk) ==
    IF ~js THEN "js_not_initialized"
    ELSE IF conn = "closed" \/ ~libOk THEN "publish_failed"
    ELSE "future"

PublishAsyncCall(subject, owner, libOk) ==
    /\ last' = Call("PublishAsync", PublishAsyncResult(libOk),
                    PublishAsyncResult(libOk) = "future")
    /\ IF PublishAsyncResult(libOk) = "future"
         THEN /\ futures' = Append(futures, NewFuture(subject, owner))
              /\ IF conn = "connected"
                   THEN wire' = wire + 1 /\ UNCHANGED pending
                   ELSE pending' = pending + 1 /\ UNCHANGED wire
         ELSE UNCHANGED pubVars

CanPublishAsync == Len(futures) < MaxPublishes /\ wire + pending < MaxSent

\* a direct caller of the client API
PublishAsync(subject) ==
    /\ natsClient = "set"
    /\ CanPublishAsync
    /\ \E libOk \in BOOLEAN : PublishAsyncCall(subject, "api", libOk)
    /\ UNCHANGED <<clientVars, subVars, httpVars, streamVars, consVars>>

PublishAsyncReturn(f) ==
    /\ f \in DOMAIN futures
    /\ ~futures[f].returned
    /\ futures' = [futures EXCEPT ![f].returned = TRUE, ![f].cancelled = TRUE]
    /\ req' = IF futures[f].owner = "http" THEN [req EXCEPT !.pc = "select"] ELSE req
    /\ UNCHANGED <<clientVars, subVars, wire, pending, now, userResp, appEnv, router, served, proc, streamVars, consVars, last>>

\* <-ctx.Done() of the goroutine's context
CtxDone(fut) == fut.cancelled \/ now >= fut.deadline

\* The three cases of the goroutine's select.
AckWaitOk(f) ==
    /\ f \in DOMAIN futures
    /\ futures[f].task = "waiting"
    /\ futures[f].okCh
    /\ futures' = [futures EXCEPT ![f].okCh = FALSE, ![f].task = "ack_ok"]
    /\ UNCHANGED <<clientVars, subVars, wire, pending, httpVars, streamVars, consVars, last>>

AckWaitErr(f) ==
    /\ f \in DOMAIN futures
    /\ futures[f].task = "waiting"
    /\ futures[f].errCh
    /\ futures' = [futures EXCEPT ![f].errCh = FALSE, ![f].task = "ack_err"]
    /\ UNCHANGED <<clientVars, subVars, wire, pending, httpVars, streamVars, consVars, last>>

\* Mutant: the select waits on a context that is never done.
AckWaitTimeout_NoContext(f) ==
    /\ f \in DOMAIN futures
    /\ futures[f].task = "waiting"
    /\ FALSE
    /\ UNCHANGED vars

\* Mutant: the timeout case abandons the publish and fails the future.
AckWaitTimeout_CancelsFuture(f) ==
    /\ f \in DOMAIN futures
    /\ futures[f].task = "waiting"
    /\ CtxDone(futures[f])
    /\ futures' = [futures EXCEPT ![f].task = "timeout", ![f].sent = FALSE,
                                  ![f].ack = "err", ![f].errCh = TRUE]
    /\ UNCHANGED <<clientVars, subVars, wire, pending, httpVars, streamVars, consVars, last>>

AckWaitTimeout(f) ==
    /\ f \in DOMAIN futures
    /\ futures[f].task = "waiting"
    /\ CtxDone(futures[f])
    /\ futures' = [futures EXCEPT ![f].task = "timeout"]
    /\ UNCHANGED <<clientVars, subVars, wire, pending, httpVars, streamVars, consVars, last>>

(***************************************************************************)
(* The broker resolves an acknowledgement: at most once per future, ok     *)
(* only for a message it received on a subject some stream captures.       *)
(***************************************************************************)
BrokerAckOk(f, name) ==
    /\ f \in DOMAIN futures
    /\ conn = "connected"
    /\ futures[f].ack = "pending" /\ futures[f].sent
    /\ futures[f].subject \in streams[name]
    /\ futures' = [futures EXCEPT ![f].ack = "ok", ![f].okCh = TRUE,
                                  ![f].ackAt = now, ![f].stream = name]
    /\ UNCHANGED <<clientVars, subVars, wire, pending, httpVars, streamVars, consVars, last>>

BrokerAckErr(f) ==
    /\ f \in DOMAIN futures
    /\ futures[f].ack = "pending"
    /\ futures' = [futures EXCEPT ![f].ack = "err", ![f].errCh = TRUE, ![f].ackAt = now]
    /\ UNCHANGED <<clientVars, subVars, wire, pending, httpVars, streamVars, consVars, last>>

MaxThreads == 2

Threads == 1..MaxThreads

IdleThread ==
    [pc |-> "idle", op |-> "none", subject |-> "", queue |-> "", key |-> "",
     handle |-> 0, seen |-> {}, res |-> "none"]

(***************************************************************************)
(* The subscription registry.  c.subscribers[key] = sub replaces whatever  *)
(* the map held under key.                                                 *)
(***************************************************************************)
\* Mutant: the entry is added beside the one already held under the key.
MapPut_KeepOld(m, key, handle) == m \cup {<<key, handle>>}

MapPut(m, key, handle) == {e \in m : e[1] # key} \cup {<<key, handle>>}

QueueKey(subject, queue) == subject \o ":" \o queue

NewSub(subject, queue, via, key, wrapped) ==
    [subject |-> subject, queue |-> queue, via |-> via, key |-> key,
     wrapped |-> wrapped, state |-> "active",
     delivered |-> 0, failed |-> 0, logged |-> 0, raised |-> 0]

CanSubscribe == Len(subs) < MaxSubs

(***************************************************************************)
(* NatsClient.Subscribe and NatsClient.QueueSubscribe, under the mutex.    *)
(* libOk is the library's answer to conn.Subscribe / conn.QueueSubscribe.  *)
(***************************************************************************)
\* Mutant: the registry entry is written before the library has answered.
Subscribe_RegisterFirst(subject, libOk) ==
    /\ natsClient = "set"
    /\ CanSubscribe
    /\ IF NotConnected
         THEN /\ last' = Call("Subscribe", "not_connected", FALSE)
              /\ UNCHANGED subVars
         ELSE IF ~libOk
         THEN /\ last' = Call("Subscribe", "subscribe_failed", FALSE)
              /\ subscribers' = MapPut(subscribers, subject, 0)
              /\ UNCHANGED subs
         ELSE /\ subs' = Append(subs, NewSub(subject, "", "Subscribe", subject, FALSE))
              /\ subscribers' = MapPut(subscribers, subject, Len(subs) + 1)
              /\ last' = Call("Subscribe", "ok", TRUE)
    /\ UNCHANGED <<clientVars, pubVars, httpVars, streamVars, consVars>>

Subscribe(subject, libOk) ==
    /\ natsClient = "set"
    /\ CanSubscribe
    /\ IF NotConnected
         THEN /\ last' = Call("Subscribe", "not_connected", FALSE)
              /\ UNCHANGED subVars
         ELSE IF ~libOk
         THEN /\ last' = Call("Subscribe", "subscribe_failed", FALSE)
              /\ UNCHANGED subVars
         ELSE /\ subs' = Append(subs, NewSub(subject, "", "Subscribe", subject, FALSE))
              /\ subscribers' = MapPut(subscribers, subject, Len(subs) + 1)
              /\ last' = Call("Subscribe", "ok", TRUE)
    /\ UNCHANGED <<clientVars, pubVars, httpVars, streamVars, consVars>>

QueueSubscribe(subject, queue, libOk) ==
    /\ natsClient = "set"
    /\ CanSubscribe
    /\ IF NotConnected
         THEN /\ last' = Call("QueueSubscribe", "not_connected", FALSE)
              /\ UNCHANGED subVars
         ELSE IF ~libOk
         THEN /\ last' = Call("QueueSubscribe", "subscribe_failed", FALSE)
              /\ UNCHANGED subVars
         ELSE /\ subs' = Append(subs, NewSub(subject, queue, "QueueSubscribe",
                                             QueueKey(subject, queue), FALSE))
              /\ subscribers' = MapPut(subscribers, QueueKey(subject, queue),
                                       Len(subs) + 1)
              /\ last' = Call("QueueSubscribe", "ok", TRUE)
    /\ UNCHANGED <<clientVars, pubVars, httpVars, streamVars, consVars>>

(***************************************************************************)
(* SubscribeToAll, SubscribeToSubject and SubscribeToQueueGroup: they wrap *)
(* the handler and subscribe on client.conn directly.  The library accepts *)
(* a subscription on any connection that is not closed.                    *)
(***************************************************************************)
HelperSubscribe(via, subject, queue, libOk) ==
    /\ CanSubscribe
    /\ IF natsClient = "nil" \/ conn = "nil"
         THEN /\ last' = Call(via, "nil_nil", FALSE)
              /\ UNCHANGED subVars
         ELSE IF conn = "closed" \/ ~libOk
         THEN /\ last' = Call(via, "subscribe_failed", FALSE)
              /\ UNCHANGED subVars
         ELSE /\ subs' = Append(subs, NewSub(subject, queue, via, "", TRUE))
              /\ last' = Call(via, "ok", TRUE)
              /\ UNCHANGED subscribers
    /\ UNCHANGED <<clientVars, pubVars, httpVars, streamVars, consVars>>

SubscribeToAll(libOk) == HelperSubscribe("SubscribeToAll", ">", "", libOk)

SubscribeToSubject(subject, libOk) ==
    HelperSubscribe("SubscribeToSubject", subject, "", libOk)

SubscribeToQueueGroup(subject, queue, libOk) ==
    HelperSubscribe("SubscribeToQueueGroup", subject, queue, libOk)

(***************************************************************************)
(* Delivery.  The library's dispatch loop calls the registered callback;   *)
(* for a helper's subscription that is wrapperHandler, which calls the     *)
(* user handler (result is what it returns).                               *)
(***************************************************************************)
\* Mutant: the wrapper passes the handler's error on instead of logging it,
\* which ends the subscription.
WrapperHandler_StopOnError(sub, result) ==
    [sub EXCEPT !.delivered = @ + 1,
                !.failed = IF result = "err" THEN @ + 1 ELSE @,
                !.raised = IF result = "err" THEN @ + 1 ELSE @,
                !.state = IF result = "err" THEN "stopped" ELSE @]

WrapperHandler(sub, result) ==
    [sub EXCEPT !.delivered = @ + 1,
                !.failed = IF result = "err" THEN @ + 1 ELSE @,
                !.logged = IF result = "err" THEN @ + 1 ELSE @]

Delivered == IF subs = <<>> THEN 0 ELSE
    LET Sum[h \in 0..Len(subs)] == IF h = 0 THEN 0 ELSE Sum[h - 1] + subs[h].delivered
    IN  Sum[Len(subs)]

Deliver(h, result) ==
    /\ h \in DOMAIN subs
    /\ conn = "connected"
    /\ subs[h].state = "active"
    /\ Delivered < MaxDeliveries
    /\ subs' = [subs EXCEPT ![h] = IF subs[h].wrapped
                                     THEN WrapperHandler(subs[h], result)
                                     ELSE [subs[h] EXCEPT !.delivered = @ + 1]]
    /\ UNCHANGED <<clientVars, subscribers, pubVars, httpVars, streamVars, consVars, last>>

(***************************************************************************)
(* SubscribeToJetStream: ensure the stream, create or update the durable   *)
(* consumer, start consuming with the wrapped handler.  consumerOk and     *)
(* consumeOk are the broker's answers to the last two steps.               *)
(***************************************************************************)
ConsumerName(subject) == "consumer_" \o subject

\* Mutant: the consumer is created without a filter and without explicit
\* acknowledgement.
ConsumerConfig_Unfiltered(streamName, subject) ==
    [stream |-> streamName, name |-> ConsumerName(subject), filter |-> ">",
     ackPolicy |-> "none"]

ConsumerConfig(streamName, subject) ==
    [stream |-> streamName, name |-> ConsumerName(subject), filter |-> subject,
     ackPolicy |-> "explicit"]

CanProvision == Cardinality(consumers) < MaxConsumers

SubscribeToJetStream(streamName, subject, lookup, create, consumerOk, consumeOk) ==
    /\ CanProvision
    /\ IF natsClient = "nil" \/ ~js
         THEN /\ last' = Call("SubscribeToJetStream", "nil_nil", FALSE)
              /\ UNCHANGED <<streamVars, consumers>>
         ELSE /\ EnsureStream(streamName, {subject}, lookup, create)
              /\ IF EnsureStreamResult(streamName, lookup, create)
                       \notin {"existing", "created"}
                   THEN /\ last' = Call("SubscribeToJetStream",
                                        EnsureStreamResult(streamName, lookup, create),
                                        FALSE)
                        /\ UNCHANGED consumers
                   ELSE IF ~consumerOk
                   THEN /\ last' = Call("SubscribeToJetStream",
                                        "create_consumer_failed", FALSE)
                        /\ UNCHANGED consumers
                   ELSE /\ consumers' =
                             {c \in consumers :
                                 ~(c.stream = streamName /\ c.name = ConsumerName(subject))}
                             \cup {[cfg |-> ConsumerConfig(streamName, subject),
                                    stream |-> streamName,
                                    name |-> ConsumerName(subject),
                                    consuming |-> consumeOk]}
                        /\ last' = Call("SubscribeToJetStream",
                                        IF consumeOk THEN "ok" ELSE "consume_failed",
                                        consumeOk)
    /\ UNCHANGED <<clientVars, subVars, pubVars, httpVars, jsMsgs>>

\* msgHandler, the wrapper SubscribeToJetStream hands to consumer.Consume:
\* what one delivery does, given what the user handler returns and whether
\* the broker accepts the acknowledgement.
\* Mutant: the message is acknowledged whatever the handler returned.
MsgHandler_AckAlways(result, ackOk) ==
    [result |-> result, acks |-> 1,
     logged |-> IF result = "err" \/ ~ackOk THEN 1 ELSE 0]

MsgHandler(result, ackOk) ==
    IF result = "err"
      THEN [result |-> result, acks |-> 0, logged |-> 1]
      ELSE [result |-> result, acks |-> 1, logged |-> IF ackOk THEN 0 ELSE 1]

\* The broker delivers a message of a consumer that is consuming.
JsDeliver(c, result, ackOk) ==
    /\ c \in consumers
    /\ c.consuming
    /\ conn = "connected"
    /\ Len(jsMsgs) < MaxJsDeliveries
    /\ jsMsgs' = Append(jsMsgs, MsgHandler(result, ackOk))
    /\ UNCHANGED <<clientVars, subVars, pubVars, httpVars, streamVars, consumers, last>>

\* A direct caller of EnsureStream.
CallEnsureStream(name, subjects, lookup, create) ==
    /\ natsClient = "set"
    /\ EnsureStream(name, subjects, lookup, create)
    /\ last' = Call("EnsureStream", EnsureStreamResult(name, lookup, create),
                    EnsureStreamIssuesCreate(name, lookup))
    /\ UNCHANGED <<clientVars, subVars, pubVars, httpVars, consVars>>

(***************************************************************************)
(* NatsClient.Close: under the mutex, drain when connected, else nothing.  *)
(* Drain stops every subscription and then closes the connection.          *)
(***************************************************************************)
\* Mutant: the connection is closed at once (conn.Close()), its subscriptions
\* cut off instead of drained.
Close_Abrupt ==
    /\ natsClient = "set"
    /\ IF conn # "nil" /\ conn = "connected"
         THEN /\ conn' = "closed"
              /\ subs' = [h \in DOMAIN subs |-> [subs[h] EXCEPT !.state = "closed"]]
              /\ last' = Call("Close", "ok", TRUE)
         ELSE /\ UNCHANGED <<conn, subs>>
              /\ last' = Call("Close", "ok", FALSE)
    /\ UNCHANGED <<natsClient, js, config, given, mu, threads, subscribers, pubVars, httpVars,
                   streamVars, consVars>>

Close ==
    /\ natsClient = "set"
    /\ IF conn # "nil" /\ conn = "connected"
         THEN /\ conn' = "closed"
              /\ subs' = [h \in DOMAIN subs |-> [subs[h] EXCEPT !.state = "drained"]]
              /\ last' = Call("Close", "ok", TRUE)
         ELSE /\ UNCHANGED <<conn, subs>>
              /\ last' = Call("Close", "ok", FALSE)
    /\ UNCHANGED <<natsClient, js, config, given, mu, threads, subscribers, pubVars, httpVars,
                   streamVars, consVars>>

(***************************************************************************)
(* Module.publishMessage, the HTTP publish handler.  It runs from the      *)
(* decoding of the body into PublishAsync; after PublishAsync has returned *)
(* it blocks in its select (publishMessageSelect).  lookup, create and     *)
(* libOk are the broker's answers to the calls it makes; a request that is *)
(* rejected makes none, and is taken once, with the answers unused.        *)
(***************************************************************************)
\* A request body as json.Decode leaves it: whether it decodes, and the
\* Subject and Data of the MessageRequest.  Data is "" when the body has no
\* data field.
Bodies ==
    {[decodes |-> FALSE, subject |-> "", data |-> ""],
     [decodes |-> TRUE, subject |-> "", data |-> "d"],
     [decodes |-> TRUE, subject |-> "", data |-> ""],
     [decodes |-> TRUE, subject |-> "a", data |-> ""]}
    \cup {[decodes |-> TRUE, subject |-> s, data |-> "d"] : s \in Subjects}

NoBody == [decodes |-> FALSE, subject |-> "", data |-> ""]

IdleRequest ==
    [pc |-> "idle", body |-> NoBody, subject |-> "", fut |-> 0, deadline |-> 0,
     status |-> 0, error |-> "", stream |-> ""]

\* utils.WriteError(w, status, error) and return
Respond(body, status, error) ==
    [pc |-> "done", body |-> body, subject |-> body.subject, fut |-> 0,
     deadline |-> 0, status |-> status, error |-> error, stream |-> ""]

RequestRejected(body) ==
    ~body.decodes \/ body.subject = "" \/ body.data = "" \/ natsClient = "nil"

\* Mutant: the availability of the client is checked before the body.
RejectStatus_ClientFirst(body) ==
    IF natsClient = "nil" THEN StatusInternalServerError
    ELSE StatusBadRequest

RejectStatus(body) ==
    IF ~body.decodes THEN StatusBadRequest
    ELSE IF body.subject = "" THEN StatusBadRequest
    ELSE IF body.data = "" THEN StatusBadRequest
    ELSE StatusInternalServerError

RejectError(body) ==
    IF ~body.decodes THEN "Invalid request body"
    ELSE IF body.subject = "" THEN "Subject is required"
    ELSE IF body.data = "" THEN "Data is required"
    ELSE "Messaging service is not available"

publishMessage(body, lookup, create, libOk) ==
    /\ req.pc \in {"idle", "done"}
    /\ CanPublishAsync
    /\ IF RequestRejected(body)
         THEN /\ lookup = "lookup_failed" /\ create = "rejected" /\ ~libOk
              /\ req' = Respond(body, RejectStatus(body), RejectError(body))
              /\ UNCHANGED <<pubVars, streamVars, last>>
         ELSE /\ ensureStream("MESSAGES", {body.subject, body.subject \o ".*"},
                              lookup, create)
              /\ IF EnsureStreamResult("MESSAGES", lookup, create)
                       \notin {"existing", "created"}
                   THEN /\ req' = Respond(body, StatusInternalServerError,
                                           "Failed to ensure messaging infrastructure")
                        /\ UNCHANGED <<pubVars, last>>
                   ELSE /\ PublishAsyncCall(body.subject, "http", libOk)
                        /\ IF PublishAsyncResult(libOk) # "future"
                             THEN req' = Respond(body, StatusInternalServerError,
                                                 "Failed to publish message")
                             ELSE req' = [pc |-> "publishing", body |-> body,
                                          subject |-> body.subject,
                                          fut |-> Len(futures) + 1,
                                          deadline |-> now + HandlerTimeout,
                                          status |-> 0, error |-> "",
                                          stream |-> ""]
    /\ UNCHANGED <<clientVars, subVars, now, userResp, appEnv, router, served, proc, consVars>>

\* The three cases of the handler's select on the returned future.
SelectOk ==
    /\ req.pc = "select"
    /\ futures[req.fut].okCh
    /\ futures' = [futures EXCEPT ![req.fut].okCh = FALSE]
    /\ req' = [req EXCEPT !.pc = "done", !.status = StatusAccepted,
                          !.stream = futures[req.fut].stream]
    /\ UNCHANGED <<clientVars, subVars, wire, pending, now, userResp, appEnv, router, served, proc, streamVars, consVars, last>>

SelectErr ==
    /\ req.pc = "select"
    /\ futures[req.fut].errCh
    /\ futures' = [futures EXCEPT ![req.fut].errCh = FALSE]
    /\ req' = [req EXCEPT !.pc = "done", !.status = StatusInternalServerError,
                          !.error = "Failed to confirm message delivery"]
    /\ UNCHANGED <<clientVars, subVars, wire, pending, now, userResp, appEnv, router, served, proc, streamVars, consVars, last>>

\* Mutant: the timeout case answers like the error case.
SelectTimeout_AsError ==
    /\ req.pc = "select"
    /\ now >= req.deadline
    /\ req' = [req EXCEPT !.pc = "done", !.status = StatusInternalServerError,
                          !.error = "Failed to confirm message delivery"]
    /\ UNCHANGED <<clientVars, subVars, pubVars, now, userResp, appEnv, router, served, proc, streamVars, consVars, last>>

SelectTimeout ==
    /\ req.pc = "select"
    /\ now >= req.deadline
    /\ req' = [req EXCEPT !.pc = "done", !.status = StatusRequestTimeout,
                          !.error = "Timeout waiting for message confirmation"]
    /\ UNCHANGED <<clientVars, subVars, pubVars, now, userResp, appEnv, router, served, proc, streamVars, consVars, last>>

(***************************************************************************)
(* User.CreateUser: decode the body, build the user, validate it, answer.  *)
(* Strings are taken character by character where the validator does so.  *)
(***************************************************************************)
Emails == {"", "not-an-email", "@example.com", "test@example.com"}
Names == {"", "John"}
Passwords == {"", "short", "1234567", "12345678", "Password123!"}
UserIds == {"550e8400-e29b-41d4-a716-446655440000"}

\* A request body as json.Decode leaves it in a UserCreationRequest.
UndecodableUserBody ==
    [decodes |-> FALSE, email |-> "", first_name |-> "", last_name |-> "",
     password |-> ""]

UserBodies ==
    {UndecodableUserBody} \cup
    [decodes : {TRUE}, email : Emails, first_name : Names, last_name : Names,
     password : Passwords]

NoUserResponse ==
    [body |-> UndecodableUserBody, status |-> 0, error |-> "", data |-> {}]

At(str, i) == SubSeq(str, i, i)

\* The validator's "email" tag, as far as the model's addresses go: one "@"
\* with something before and after it.
IsEmail(str) ==
    \E i \in 2..(Len(str) - 1) :
        /\ At(str, i) = "@"
        /\ \A j \in 1..Len(str) : j # i => At(str, j) # "@"

\* The validator's "uuid" tag: 36 characters with hyphens at 9, 14, 19, 24.
IsUuid(str) ==
    /\ Len(str) = 36
    /\ \A i \in {9, 14, 19, 24} : At(str, i) = "-"

\* The first tag of the field's `validate` list that fails, or "".
FailedTag(user, f) ==
    IF user[f] = "" THEN "required"
    ELSE IF f = "ID" /\ ~IsUuid(user[f]) THEN "uuid"
    ELSE IF f = "Email" /\ ~IsEmail(user[f]) THEN "email"
    ELSE IF f = "Password" /\ Len(user[f]) < 8 THEN "min"
    ELSE ""

UserFields == <<"ID", "Email", "FirstName", "LastName", "Password">>

\* UserValidator.Validate: the text of the error, "" for nil.
RECURSIVE ValidateFrom(_, _)
ValidateFrom(user, i) ==
    IF i > Len(UserFields) THEN ""
    ELSE (IF FailedTag(user, UserFields[i]) = "" THEN ""
          ELSE "User." \o UserFields[i] \o " failed on " \o
               FailedTag(user, UserFields[i]) \o "; ")
         \o ValidateFrom(user, i + 1)

Validate(user) == ValidateFrom(user, 1)

\* Mutant: the response object carries the user's password.
UserResponse_WithPassword(user) ==
    {<<"id", user.ID>>, <<"email", user.Email>>,
     <<"first_name", user.FirstName>>, <<"last_name", user.LastName>>,
     <<"password", user.Password>>,
     <<"created_at", "now">>, <<"updated_at", "now">>}

\* The UserResponse the handler builds, as the JSON object it encodes to.
UserResponse(user) ==
    {<<"id", user.ID>>, <<"email", user.Email>>,
     <<"first_name", user.FirstName>>, <<"last_name", user.LastName>>,
     <<"created_at", "now">>, <<"updated_at", "now">>}

CreateUser(body, id) ==
    /\ LET user == [ID |-> id, Email |-> body.email,
                    FirstName |-> body.first_name, LastName |-> body.last_name,
                    Password |-> body.password]
       IN  userResp' =
             IF ~body.decodes
               THEN [body |-> body, status |-> StatusBadRequest,
                     error |-> "Invalid request body", data |-> {}]
             ELSE IF Validate(user) # ""
               THEN [body |-> body, status |-> StatusBadRequest,
                     error |-> "Invalid user data: " \o Validate(user),
                     data |-> {}]
             ELSE [body |-> body, status |-> StatusCreated, error |-> "",
                   data |-> UserResponse(user)]
    /\ UNCHANGED <<clientVars, subVars, pubVars, req, now, appEnv, router, served, proc,
                   streamVars, consVars, last>>

(***************************************************************************)
(* Time.  A second passes only when no task of the program can take a      *)
(* step: a function that is returning, a select with a ready case.         *)
(***************************************************************************)
TaskReady(f) ==
    /\ futures[f].task = "waiting"
    /\ futures[f].okCh \/ futures[f].errCh \/ CtxDone(futures[f])

SelectReady ==
    /\ req.pc = "select"
    /\ futures[req.fut].okCh \/ futures[req.fut].errCh \/ now >= req.deadline

Tick ==
    /\ now < MaxTime
    /\ \A f \in DOMAIN futures : futures[f].returned /\ ~TaskReady(f)
    /\ ~SelectReady
    /\ now' = now + 1
    /\ UNCHANGED <<clientVars, subVars, pubVars, req, userResp, appEnv, router, served, proc, streamVars, consVars, last>>

(***************************************************************************)
(* Config, DefaultConfig and NewNatsClient.  Durations are in seconds, the *)
(* buffer size in bytes.  The default connection name ends in the first    *)
(* eight characters of a fresh UUID.                                       *)
(***************************************************************************)
Uuids == {"1a2b3c4d", "9f8e7d6c"}

ZeroConfig ==
    [URL |-> "", Username |-> "", Password |-> "", ConnectionTimeout |-> 0,
     ConnectionName |-> "", MaxReconnects |-> 0, ReconnectWait |-> 0,
     ReconnectBufferSize |-> 0]

DefaultConfig(u) ==
    [URL |-> "nats://localhost:4222", Username |-> "", Password |-> "",
     ConnectionTimeout |-> 10, ConnectionName |-> "go-http-service-" \o u,
     MaxReconnects |-> 5, ReconnectWait |-> 1,
     ReconnectBufferSize |-> 5 * 1024 * 1024]

\* The configurations a caller hands to NewNatsClient: each field with a
\* default is either left zero or set.
Configs ==
    [URL : {"", "nats://broker:4222"}, Username : {""}, Password : {""},
     ConnectionTimeout : {0, 3}, ConnectionName : {"", "svc"},
     MaxReconnects : {0, 2}, ReconnectWait : {0, 2},
     ReconnectBufferSize : {0, 1024}]

\* setupNatsClient: only URL, Username and Password are taken from the
\* service's configuration.
MainConfig == [ZeroConfig EXCEPT !.URL = "nats://broker:4222"]

\* The "apply default config values where needed" block of NewNatsClient.
ApplyDefaults(cfg, u) ==
    [cfg EXCEPT
       !.ConnectionTimeout = IF @ = 0 THEN DefaultConfig(u).ConnectionTimeout ELSE @,
       !.MaxReconnects = IF @ = 0 THEN DefaultConfig(u).MaxReconnects ELSE @,
       !.ReconnectWait = IF @ = 0 THEN DefaultConfig(u).ReconnectWait ELSE @,
       !.ReconnectBufferSize = IF @ = 0 THEN DefaultConfig(u).ReconnectBufferSize ELSE @,
       !.ConnectionName = IF @ = "" THEN DefaultConfig(u).ConnectionName ELSE @]

\* connect(): what it returns, given whether nats.Connect and jetstream.New
\* succeed.
ConnectResult(connectOk, jsOk) ==
    IF ~connectOk THEN "connect_failed"
    ELSE IF ~jsOk THEN "jetstream_failed"
    ELSE "ok"

\* NewNatsClient, called by a module that holds no client.  conn, js and
\* config are the fields of the client object it makes, natsClient whether
\* that object is returned.  connect() assigns c.conn as soon as
\* nats.Connect has answered and returns on a jetstream.New failure without
\* touching it again.
NewNatsClient(cfg, u, connectOk, jsOk) ==
    /\ natsClient = "nil"
    /\ given' = cfg
    /\ config' = ApplyDefaults(cfg, u)
    /\ conn' = IF connectOk THEN "connected" ELSE "nil"
    /\ js' = (connectOk /\ jsOk)
    /\ natsClient' = IF ConnectResult(connectOk, jsOk) = "ok" THEN "set" ELSE "nil"
    /\ last' = [op |-> "NewNatsClient", connAt |-> "nil",
                res |-> ConnectResult(connectOk, jsOk), issued |-> connectOk]
    /\ UNCHANGED <<mu, threads, subVars, pubVars, httpVars, streamVars, consVars>>

(***************************************************************************)
(* Messaging.Router: the messaging endpoints are mounted only when APP_ENV *)
(* reads "development" at the call.  Paths are sequences of segments:      *)
(* <<"subscribe", "{subject}">> is the pattern "/subscribe/{subject}".     *)
(***************************************************************************)
EnvValues ==
    {"", "development", "Development", "DEVELOPMENT", "production",
     "dev", "development ", "staging"}

UpperLetters == "ABCDEFGHIJKLMNOPQRSTUVWXYZ"
LowerLetters == "abcdefghijklmnopqrstuvwxyz"

ToLowerChar(c) ==
    IF \E i \in 1..Len(UpperLetters) : At(UpperLetters, i) = c
      THEN At(LowerLetters, CHOOSE i \in 1..Len(UpperLetters) : At(UpperLetters, i) = c)
      ELSE c

RECURSIVE ToLowerFrom(_, _)
ToLowerFrom(str, i) ==
    IF i > Len(str) THEN "" ELSE ToLowerChar(At(str, i)) \o ToLowerFrom(str, i + 1)

\* Mutant: the environment value is compared as it is.
ToLower_Identity(str) == str

\* strings.ToLower
ToLower(str) == ToLowerFrom(str, 1)

NoRouter == [built |-> FALSE, envAt |-> "", routes |-> {}]

NotServed == [method |-> "", path |-> <<>>, handler |-> "none"]

MessagingRoutes ==
    {[method |-> "POST", pattern |-> <<"publish">>, handler |-> "PublishMessage"],
     [method |-> "GET", pattern |-> <<"subscribe", "{subject}">>,
      handler |-> "SubscribeWebSocket"]}

\* os.Setenv("APP_ENV", v); os.Unsetenv leaves what Getenv reads as ""
Setenv(v) ==
    /\ appEnv' = v
    /\ UNCHANGED <<clientVars, subVars, pubVars, req, now, userResp, router, served, proc,
                   streamVars, consVars, last>>

Router ==
    /\ router' = [built |-> TRUE, envAt |-> appEnv,
                  routes |-> IF ToLower(appEnv) = "development"
                               THEN MessagingRoutes ELSE {}]
    /\ served' = NotServed
    /\ UNCHANGED <<clientVars, subVars, pubVars, req, now, userResp, appEnv, proc,
                   streamVars, consVars, last>>

\* chi's matching of one segment: a {param} takes any non-empty segment
SegmentMatches(pat, seg) ==
    IF At(pat, 1) = "{" THEN seg # "" ELSE pat = seg

PatternMatches(pattern, path) ==
    /\ Len(pattern) = Len(path)
    /\ \A i \in 1..Len(pattern) : SegmentMatches(pattern[i], path[i])

Methods == {"GET", "POST"}
Paths == {<<"publish">>, <<"subscribe", "a">>, <<"subscribe", "b">>, <<"other">>}

\* what the mux does with a request: the route's handler, 405 when only the
\* method differs, 404 otherwise
Dispatch(routes, method, path) ==
    IF \E r \in routes : r.method = method /\ PatternMatches(r.pattern, path)
      THEN (CHOOSE r \in routes :
                r.method = method /\ PatternMatches(r.pattern, path)).handler
      ELSE IF \E r \in routes : PatternMatches(r.pattern, path)
             THEN "MethodNotAllowed"
             ELSE "NotFound"

ServeHTTP(method, path) ==
    /\ router.built
    /\ served' = [method |-> method, path |-> path,
                  handler |-> Dispatch(router.routes, method, path)]
    /\ UNCHANGED <<clientVars, subVars, pubVars, req, now, userResp, appEnv, router, proc,
                   streamVars, consVars, last>>

(***************************************************************************)
(* main: set up the database, the NATS client and the global               *)
(* subscriptions, start the HTTP server in a goroutine, wait for a signal, *)
(* stop the server within ShutdownTimeout seconds, return.  The deferred   *)
(* calls then run last-in first-out: natsClient.Close(), dbConn.Close().   *)
(* log.Fatal exits the process at once, without running them.              *)
(***************************************************************************)
ShutdownTimeout == 10

NotStarted ==
    [pc |-> "start", db |-> "none", server |-> "nil", inflight |-> 0,
     waited |-> 0, listeningAtSignal |-> FALSE]

\* setupDatabase, and `defer dbConn.Close()`
SetupDatabase(ok) ==
    /\ proc.pc = "start"
    /\ proc' = IF ok THEN [proc EXCEPT !.pc = "db_ready", !.db = "open"]
                     ELSE [proc EXCEPT !.pc = "fatal"]
    /\ UNCHANGED <<clientVars, subVars, pubVars, req, now, userResp, appEnv, router, served, streamVars,
                   consVars, last>>

\* setupNatsClient: the call of NewNatsClient, then main's test of its result
MainNewNatsClient(u, connectOk, jsOk) ==
    /\ proc.pc = "db_ready"
    /\ last.op # "NewNatsClient"
    /\ NewNatsClient(MainConfig, u, connectOk, jsOk)

SetupNatsClient ==
    /\ proc.pc = "db_ready"
    /\ last.op = "NewNatsClient"
    /\ proc' = [proc EXCEPT !.pc = IF last.res = "ok" THEN "nats_ready" ELSE "fatal"]
    /\ UNCHANGED <<clientVars, subVars, pubVars, req, now, userResp, appEnv, router, served, streamVars,
                   consVars, last>>

\* setupGlobalSubscriptions: the SubscribeToAll call, then main's test of its
\* error (a nil handle with a nil error passes)
MainSubscribeToAll(libOk) ==
    /\ proc.pc = "nats_ready"
    /\ last.op # "SubscribeToAll"
    /\ SubscribeToAll(libOk)

SetupGlobalSubscriptions ==
    /\ proc.pc = "nats_ready"
    /\ last.op = "SubscribeToAll"
    /\ proc' = [proc EXCEPT !.pc = IF last.res \in {"ok", "nil_nil"}
                                     THEN "serving" ELSE "fatal"]
    /\ UNCHANGED <<clientVars, subVars, pubVars, req, now, userResp, appEnv, router, served, streamVars,
                   consVars, last>>

\* The goroutine `go func() { server.start() }()`: start() assigns s.server
\* and listens; main does not wait for it.
ServerStart(ok) ==
    /\ proc.pc \in {"serving", "signalled", "stopped", "nats_closed"}
    /\ proc.server = "nil"
    /\ proc' = [proc EXCEPT !.server = IF ok THEN "listening" ELSE "failed"]
    /\ UNCHANGED <<clientVars, subVars, pubVars, req, now, userResp, appEnv, router, served, streamVars,
                   consVars, last>>

MaxInflight == 1

\* A request is accepted by the listening server, and answered.
RequestArrives ==
    /\ proc.server = "listening"
    /\ proc.inflight < MaxInflight
    /\ proc' = [proc EXCEPT !.inflight = @ + 1]
    /\ UNCHANGED <<clientVars, subVars, pubVars, req, now, userResp, appEnv, router, served, streamVars,
                   consVars, last>>

RequestDone ==
    /\ proc.inflight > 0
    /\ proc' = [proc EXCEPT !.inflight = @ - 1]
    /\ UNCHANGED <<clientVars, subVars, pubVars, req, now, userResp, appEnv, router, served, streamVars,
                   consVars, last>>

\* `<-shutdown`
Signal ==
    /\ proc.pc = "serving"
    /\ proc' = [proc EXCEPT !.pc = "signalled",
                            !.listeningAtSignal = (proc.server = "listening")]
    /\ UNCHANGED <<clientVars, subVars, pubVars, req, now, userResp, appEnv, router, served, streamVars,
                   consVars, last>>

\* server.stop(shutdownCtx): nothing when s.server is nil; else Shutdown
\* closes the listener at once and returns when no request is in flight or
\* the context has expired.
ServerStopBegin ==
    /\ proc.pc = "signalled"
    /\ proc.server \in {"nil", "listening", "failed"}
    /\ proc' = IF proc.server = "nil" THEN [proc EXCEPT !.pc = "stopped"]
               ELSE [proc EXCEPT !.server = "shutting_down"]
    /\ UNCHANGED <<clientVars, subVars, pubVars, req, now, userResp, appEnv, router, served, streamVars,
                   consVars, last>>

ShutdownTick ==
    /\ proc.pc = "signalled"
    /\ proc.server = "shutting_down"
    /\ proc.inflight > 0
    /\ proc.waited < ShutdownTimeout
    /\ proc' = [proc EXCEPT !.waited = @ + 1]
    /\ UNCHANGED <<clientVars, subVars, pubVars, req, now, userResp, appEnv, router, served, streamVars,
                   consVars, last>>

ServerStopReturn ==
    /\ proc.pc = "signalled"
    /\ proc.server = "shutting_down"
    /\ proc.inflight = 0 \/ proc.waited >= ShutdownTimeout
    /\ proc' = [proc EXCEPT !.pc = "stopped",
                            !.server = IF proc.inflight = 0 THEN "stopped"
                                       ELSE "stop_timed_out"]
    /\ UNCHANGED <<clientVars, subVars, pubVars, req, now, userResp, appEnv, router, served, streamVars,
                   consVars, last>>

\* Mutant: the NATS client is closed as soon as the signal has come, before
\* the server is stopped.
MainDeferredClose_BeforeStop ==
    /\ proc.pc = "signalled"
    /\ last.op # "Close"
    /\ Close

\* The deferred natsClient.Close(): the call, then main's next deferred call
MainDeferredClose ==
    /\ proc.pc = "stopped"
    /\ last.op # "Close"
    /\ Close

DeferredCloseReturn ==
    /\ proc.pc = "stopped"
    /\ last.op = "Close"
    /\ proc' = [proc EXCEPT !.pc = "nats_closed"]
    /\ UNCHANGED <<clientVars, subVars, pubVars, req, now, userResp, appEnv, router, served, streamVars,
                   consVars, last>>

\* The deferred dbConn.Close()
DeferredDbClose ==
    /\ proc.pc = "nats_closed"
    /\ proc' = [proc EXCEPT !.pc = "exited", !.db = "closed"]
    /\ UNCHANGED <<clientVars, subVars, pubVars, req, now, userResp, appEnv, router, served, streamVars,
                   consVars, last>>

(***************************************************************************)
(* Construction.  NewNatsClient returns a client only when connect() has   *)
(* connected and derived the JetStream context; the module may also hold   *)
(* no client, or (as the handler tests do) a zero-valued one.              *)
(***************************************************************************)
ClientStates ==
    {[natsClient |-> "nil", conn |-> "nil", js |-> FALSE,
      config |-> ZeroConfig, given |-> ZeroConfig],
     [natsClient |-> "set", conn |-> "nil", js |-> FALSE,
      config |-> ZeroConfig, given |-> ZeroConfig]}
    \cup {[natsClient |-> "set", conn |-> "connected", js |-> TRUE,
            config |-> ApplyDefaults(MainConfig, "1a2b3c4d"),
            given |-> MainConfig]}

InitClient ==
    \E c \in ClientStates :
        /\ natsClient = c.natsClient /\ conn = c.conn /\ js = c.js
        /\ config = c.config /\ given = c.given
        /\ mu = 0
        /\ threads = [t \in Threads |-> IdleThread]

InitRest ==
    /\ subscribers = {}
    /\ subs = <<>>
    /\ wire = 0
    /\ pending = 0
    /\ futures = <<>>
    /\ req = IdleRequest
    /\ userResp = NoUserResponse
    /\ appEnv = ""
    /\ router = NoRouter
    /\ served = NotServed
    /\ proc = NotStarted
    /\ now = 0
    /\ streams = [n \in StreamNames |-> NoStream]
    /\ lastEnsure = [name |-> "", requested |-> {}, before |-> NoStream,
                     lookup |-> "none", res |-> "none", createIssued |-> FALSE]
    /\ consumers = {}
    /\ jsMsgs = <<>>
    /\ last = NoCall

Init == InitClient /\ InitRest

(***************************************************************************)
(* SpecConn: the connection's life and the three publishing calls.         *)
(***************************************************************************)
NextConn ==
    \/ Disconnected
    \/ Reconnected
    \/ ConnClosed
    \/ Close
    \/ \E s \in Subjects : Publish(s)
    \/ \E s \in Subjects : Request(s)
    \/ \E s \in Subjects : PublishAsync(s)
    \/ \E f \in 1..MaxPublishes : PublishAsyncReturn(f)
    \/ \E f \in 1..MaxPublishes : AckWaitErr(f)
    \/ \E f \in 1..MaxPublishes : AckWaitTimeout(f)
    \/ \E f \in 1..MaxPublishes : BrokerAckErr(f)

SpecConn == Init /\ [][NextConn]_vars

(***************************************************************************)
(* SpecHttp: the HTTP publish handler, PublishAsync's ack-wait task, the   *)
(* broker's acknowledgements and the clock, on a healthy connection.       *)
(***************************************************************************)
NextHttp ==
    \/ \E body \in Bodies, lookup \in LookupOutcomes("MESSAGES"),
          create \in CreateOutcomes, libOk \in BOOLEAN :
            publishMessage(body, lookup, create, libOk)
    \/ \E f \in 1..MaxPublishes : PublishAsyncReturn(f)
    \/ \E f \in 1..MaxPublishes : AckWaitOk(f)
    \/ \E f \in 1..MaxPublishes : AckWaitErr(f)
    \/ \E f \in 1..MaxPublishes : AckWaitTimeout(f)
    \/ \E f \in 1..MaxPublishes, n \in StreamNames : BrokerAckOk(f, n)
    \/ \E f \in 1..MaxPublishes : BrokerAckErr(f)
    \/ SelectOk
    \/ SelectErr
    \/ SelectTimeout
    \/ Tick

SpecHttp == Init /\ [][NextHttp]_vars

\* The goroutine is scheduled whenever its select has a ready case, and a
\* function that has reached its return statement returns.
FairAck ==
    \A f \in 1..MaxPublishes :
        /\ WF_vars(PublishAsyncReturn(f))
        /\ WF_vars(AckWaitOk(f))
        /\ WF_vars(AckWaitErr(f))
        /\ WF_vars(AckWaitTimeout(f))

SpecHttpFair == Init /\ [][NextHttp]_vars /\ FairAck

(***************************************************************************)
(* Claims                                                                  *)
(***************************************************************************)
PublishingOps == {"Publish", "Request", "PublishAsync"}
NotConnectedClass == {"not_connected", "js_not_initialized", "publish_failed"}

\* C1: Publish, Request and PublishAsync called while the connection is
\* absent or not connected return a not-connected-class error and put
\* nothing on the connection for the broker (neither sent nor buffered).
C1_PublishRequiresConnection ==
    (last.op \in PublishingOps /\ last.connAt # "connected")
        => (last.res \in NotConnectedClass /\ ~last.issued)

\* C5: the ack-wait task takes its timeout case only once 5 seconds have
\* passed since the publish with the acknowledgement still unresolved.
C5_TimeoutOnlyAfterBound ==
    [][\A f \in DOMAIN futures :
          (futures[f].task = "waiting" /\ futures'[f].task = "timeout")
             => (now >= futures[f].deadline /\ futures[f].ack = "pending")]_vars

\* The handler has answered a request that got as far as waiting on a future
\* the broker resolved with `ack` before the handler's deadline.
AnsweredAfterAck(ack) ==
    /\ req.pc = "done"
    /\ req.fut # 0
    /\ futures[req.fut].ack = ack
    /\ futures[req.fut].ackAt < req.deadline

\* C6: an acknowledgement error the broker reports before the deadline is
\* received by the handler waiting on the future's error channel (it
\* answers 500), however the ack-wait task is interleaved with it.
C6_AckErrorReachesCaller ==
    AnsweredAfterAck("err") => req.status = StatusInternalServerError

\* C7: an acknowledgement the broker gives before the deadline is observed by
\* the handler, which answers 202 with the stream and the subject, however
\* the ack-wait task is interleaved with it.
C7_AckOkReachesCaller ==
    AnsweredAfterAck("ok")
        => /\ req.status = StatusAccepted
           /\ req.stream = futures[req.fut].stream
           /\ req.subject = futures[req.fut].subject

\* C8: every ack-wait task PublishAsync starts terminates, also when the
\* broker never resolves the acknowledgement, and none is still waiting once
\* its 5 second bound has passed.
C8_AckWaitTerminates ==
    /\ \A f \in 1..MaxPublishes :
          (f \in DOMAIN futures) ~> (f \in DOMAIN futures /\ futures[f].task # "waiting")
    /\ [](\A f \in DOMAIN futures :
             futures[f].task = "waiting" => now <= futures[f].deadline)

C8_Witness ==
    \E f \in DOMAIN futures : futures[f].task = "timeout" /\ futures[f].ack = "pending"

Next ==
    \/ Disconnected
    \/ Reconnected
    \/ ConnClosed
    \/ Close
    \/ \E s \in Subjects, libOk \in BOOLEAN : Subscribe(s, libOk)
    \/ \E s \in Subjects, q \in Queues, libOk \in BOOLEAN : QueueSubscribe(s, q, libOk)
    \/ \E libOk \in BOOLEAN : SubscribeToAll(libOk)
    \/ \E s \in Subjects, libOk \in BOOLEAN : SubscribeToSubject(s, libOk)
    \/ \E s \in Subjects, q \in Queues, libOk \in BOOLEAN :
          SubscribeToQueueGroup(s, q, libOk)
    \/ \E h \in 1..MaxSubs, result \in {"ok", "err"} : Deliver(h, result)

Spec == Init /\ [][Next]_vars

\* The handle the latest successful Subscribe / QueueSubscribe under key returned
Registered(key) == {h \in DOMAIN subs : subs[h].key = key}
Latest(key) == CHOOSE h \in Registered(key) : \A g \in Registered(key) : g <= h
RegistryKeys == Subjects \cup {QueueKey(s, q) : s \in Subjects, q \in Queues}

\* C3: the registry holds at most one entry per key, and the entry of a key
\* is the handle that the latest successful subscribe under that key returned.
C3_RegistryOneEntryPerKey ==
    \A key \in RegistryKeys \cup {e[1] : e \in subscribers} :
        {e \in subscribers : e[1] = key} =
            IF Registered(key) = {} THEN {} ELSE {<<key, Latest(key)>>}

C3_Witness ==
    \E key \in RegistryKeys :
        /\ Cardinality(Registered(key)) >= 2
        /\ <<key, Latest(key)>> \in subscribers

\* C4: a helper's subscription whose handler fails stays active (it ends only
\* with the connection), every failure is logged once, and none is passed on
\* to the library's dispatch loop.
C4_HandlerErrorIsolation ==
    \A h \in DOMAIN subs :
        subs[h].wrapped =>
            /\ subs[h].logged = subs[h].failed
            /\ subs[h].raised = 0
            /\ subs[h].state \in {"active", "drained", "closed"}
            /\ subs[h].state # "active" => conn = "closed"

C4_Witness ==
    \E h \in DOMAIN subs :
        /\ subs[h].wrapped
        /\ subs[h].delivered >= 2
        /\ subs[h].failed = subs[h].delivered
        /\ subs[h].logged = subs[h].delivered
        /\ subs[h].state = "active"

(***************************************************************************)
(* SpecStream: stream provisioning and the durable consumer.               *)
(***************************************************************************)
SubjectSets == {{s} : s \in Subjects} \cup {{s, s \o ".*"} : s \in Subjects}

NextStream ==
    \/ \E name \in StreamNames, subjects \in SubjectSets :
          \E lookup \in LookupOutcomes(name), create \in CreateOutcomes :
            CallEnsureStream(name, subjects, lookup, create)
    \/ \E name \in StreamNames, s \in Subjects :
          \E lookup \in LookupOutcomes(name), create \in CreateOutcomes,
             consumerOk \in BOOLEAN, consumeOk \in BOOLEAN :
            SubscribeToJetStream(name, s, lookup, create, consumerOk, consumeOk)
    \/ \E c \in consumers, result \in {"ok", "err"}, ackOk \in BOOLEAN :
          JsDeliver(c, result, ackOk)

SpecStream == Init /\ [][NextStream]_vars

\* C2: of every message delivered to a durable consumer's wrapped handler,
\* one whose handler returns no error is acknowledged exactly once and one
\* whose handler returns an error is not acknowledged.
C2_AckIffHandlerSucceeds ==
    \A d \in DOMAIN jsMsgs :
        /\ jsMsgs[d].result = "ok" => jsMsgs[d].acks = 1
        /\ jsMsgs[d].result = "err" => jsMsgs[d].acks = 0

C2_Witness ==
    \E d, e \in DOMAIN jsMsgs :
        /\ jsMsgs[d].result = "ok" /\ jsMsgs[d].acks = 1
        /\ jsMsgs[e].result = "err" /\ jsMsgs[e].acks = 0

\* C10: an ensure that finds no stream of the name and whose create succeeds
\* leaves the stream with the subjects asked for; an ensure that finds the
\* stream returns it, sends the broker no create or update, and leaves the
\* stream's subjects as they were, whatever subjects it was asked for.
C10_EnsureStreamKeepsExisting ==
    /\ (lastEnsure.lookup = "not_found" /\ lastEnsure.res = "created")
          => (lastEnsure.createIssued
              /\ streams[lastEnsure.name] = lastEnsure.requested)
    /\ lastEnsure.lookup = "found"
          => /\ lastEnsure.res = "existing"
             /\ ~lastEnsure.createIssued
             /\ lastEnsure.before # NoStream
             /\ streams[lastEnsure.name] = lastEnsure.before

C10_Witness ==
    /\ lastEnsure.lookup = "found"
    /\ lastEnsure.res = "existing"
    /\ lastEnsure.before # NoStream
    /\ lastEnsure.requested # lastEnsure.before
    /\ streams[lastEnsure.name] = lastEnsure.before

(***************************************************************************)
(* The registry key each subscription mode derives.                        *)
(***************************************************************************)
DerivedKey(sub) ==
    IF sub.via = "SubscribeToAll" THEN ">"
    ELSE IF sub.queue # "" THEN QueueKey(sub.subject, sub.queue)
    ELSE sub.subject

SubsRegistered ==
    \A h \in DOMAIN subs : \E e \in subscribers : e[1] = DerivedKey(subs[h])

ConsumersRegistered ==
    \A c \in consumers : c.consuming => \E e \in subscribers : e[1] = c.name

\* C11: every subscription a subscription mode has established has left an
\* entry in the registry under its derived key: ">" for all subjects, the
\* subject for one subject, subject:queue for a queue group, consumer_subject
\* for the durable consumer.
C11_EveryModeRegisters == SubsRegistered /\ ConsumersRegistered

HelperOps == {"SubscribeToAll", "SubscribeToSubject", "SubscribeToQueueGroup"}

\* What a call handed back: a handle, an error, or neither (nil, nil).
ReturnsHandle(call) == call.res = "ok"
ReturnsError(call) == call.res \notin {"ok", "nil_nil", "none"}

\* C12: SubscribeToAll, SubscribeToSubject and SubscribeToQueueGroup return a
\* handle or an error, never neither; without a client or a connection they
\* return an error.
C12_HelperReturnsHandleOrError ==
    last.op \in HelperOps =>
        /\ ReturnsHandle(last) \/ ReturnsError(last)
        /\ (natsClient = "nil" \/ last.connAt \in {"nil", "closed"})
              => ReturnsError(last)

\* The states of a connection that connect() established and that is not closed.
LiveStates == {"connected", "reconnecting"}

CloseCalledLive == last.op = "Close" /\ last.connAt \in LiveStates

\* C13: after Close has been called on a live connection (connected or
\* reconnecting) the connection is not connected again, and once it is closed
\* no subscription is active.
C13_CloseIsFinal ==
    CloseCalledLive =>
        /\ conn # "connected"
        /\ conn = "closed" => \A h \in DOMAIN subs : subs[h].state # "active"

\* C14: a Close on a connected connection drains it (every subscription is
\* stopped by drain, then the connection is closed); a Close on a client that
\* never connected returns success, sends the broker nothing and changes
\* nothing.
C14_CloseDrainsOrNoop ==
    last.op = "Close" =>
        /\ last.connAt = "connected" =>
              /\ last.issued
              /\ conn = "closed"
              /\ \A h \in DOMAIN subs : subs[h].state = "drained"
        /\ last.connAt = "nil" =>
              /\ last.res = "ok"
              /\ ~last.issued
              /\ conn = "nil"
              /\ subs = <<>>

C14_Witness ==
    /\ last.op = "Close"
    /\ last.connAt = "connected"
    /\ Len(subs) >= 2
    /\ \A h \in DOMAIN subs : subs[h].state = "drained"

C14_WitnessNeverConnected ==
    /\ last.op = "Close"
    /\ last.connAt = "nil"
    /\ last.res = "ok"

(***************************************************************************)
(* SpecNew: construction of the client, then the connection's life, Close  *)
(* and the core publishing calls.                                          *)
(***************************************************************************)
NextNew ==
    \/ \E cfg \in Configs, u \in Uuids, connectOk \in BOOLEAN, jsOk \in BOOLEAN :
          NewNatsClient(cfg, u, connectOk, jsOk)
    \/ Disconnected
    \/ Reconnected
    \/ ConnClosed
    \/ Close
    \/ \E s \in Subjects : Publish(s)
    \/ \E s \in Subjects : Request(s)

SpecNew == Init /\ [][NextNew]_vars

\* C15: when NewNatsClient fails because the JetStream context could not be
\* derived, no client is returned and the transport it connected is not left
\* open.
C15_FailedConstructionReleasesTransport ==
    (last.op = "NewNatsClient" /\ last.res = "jetstream_failed") =>
        /\ natsClient = "nil"
        /\ ~js
        /\ conn \notin LiveStates

\* C16: SubscribeToJetStream asks for the stream with the subjects
\* {subject, subject.*}, and a stream it creates carries exactly those two.
C16_JetStreamSubjectPatterns ==
    (last.op = "SubscribeToJetStream" /\ last.res # "nil_nil") =>
        \E s \in Subjects :
            /\ lastEnsure.requested = {s, s \o ".*"}
            /\ lastEnsure.res = "created" =>
                  streams[lastEnsure.name] = {s, s \o ".*"}

\* The fields of Config for which DefaultConfig gives a non-zero value.
DefaultedFields ==
    {"URL", "ConnectionName", "ConnectionTimeout", "MaxReconnects",
     "ReconnectWait", "ReconnectBufferSize"}

StringFields == {"URL", "ConnectionName"}

\* The zero value of the field's type.
IsZero(f, v) == IF f \in StringFields THEN v = "" ELSE v = 0

\* cfg is given with every zero-valued field replaced by its default and
\* every other field kept.
IsDefaulted(cfg, from) ==
    \E u \in Uuids :
        \A f \in DefaultedFields :
            cfg[f] = IF IsZero(f, from[f]) THEN DefaultConfig(u)[f] ELSE from[f]

\* C17: the configuration a client built by NewNatsClient holds is the one
\* it was given with every zero-valued field (URL, connection name, connect
\* timeout, max reconnects, reconnect wait, reconnect buffer size) replaced
\* by its DefaultConfig value and every non-zero field kept, and no later
\* step changes it.
C17_ConfigDefaultedAndImmutable ==
    [][/\ (last'.op = "NewNatsClient" /\ last'.res = "ok")
             => IsDefaulted(config', given')
       /\ (natsClient = "set" /\ natsClient' = "set") => config' = config]_vars

(***************************************************************************)
(* The form of the errors the calls return.  A broker failure is an error  *)
(* of a call on the library; the caller gets it either inside an error     *)
(* that names the operation (fmt.Errorf("failed to ...: %w", err)) or as   *)
(* it is (return err).                                                     *)
(***************************************************************************)
BrokerFailures ==
    {"send_failed", "request_failed", "publish_failed", "subscribe_failed",
     "get_stream_failed", "create_stream_failed", "stream_info_failed",
     "create_consumer_failed", "consume_failed"}

\* <<operation, failure>> pairs returned through fmt.Errorf
WrappedReturns ==
    {<<"PublishAsync", "publish_failed">>,
     <<"Subscribe", "subscribe_failed">>,
     <<"QueueSubscribe", "subscribe_failed">>,
     <<"EnsureStream", "create_stream_failed">>,
     <<"EnsureStream", "stream_info_failed">>,
     <<"SubscribeToJetStream", "create_stream_failed">>,
     <<"SubscribeToJetStream", "stream_info_failed">>}

\* <<operation, failure>> pairs returned as the library's own error
RawReturns ==
    {<<"Publish", "send_failed">>,
     <<"Request", "request_failed">>,
     <<"SubscribeToJetStream", "create_consumer_failed">>,
     <<"SubscribeToJetStream", "consume_failed">>}
    \cup {<<op, "subscribe_failed">> : op \in HelperOps}

\* C18: an error a call returns because a broker call failed is wrapped with
\* the operation that was attempted, never the broker's error as it is.
C18_BrokerErrorsWrapped ==
    last.res \in BrokerFailures =>
        /\ <<last.op, last.res>> \in WrappedReturns
        /\ <<last.op, last.res>> \notin RawReturns

\* A request publishMessage answers before it touches the broker.
RejectedBody(body) ==
    ~body.decodes \/ body.subject = "" \/ body.data = "" \/ natsClient = "nil"

NextUser ==
    \E body \in UserBodies, id \in UserIds : CreateUser(body, id)

SpecUser == Init /\ [][NextUser]_vars

\* What the claim asks of a body: it decodes, the email is present and has
\* the format of an address, both names are present, the password has at
\* least 8 characters.
AcceptableUserBody(body) ==
    /\ body.decodes
    /\ body.email # "" /\ IsEmail(body.email)
    /\ body.first_name # ""
    /\ body.last_name # ""
    /\ Len(body.password) >= 8

JsonKeys(data) == {e[1] : e \in data}

\* C20: CreateUser answers an acceptable body with 201 and a user object that
\* has no password, and any other body with 400, a non-empty error and no
\* user data.
C20_CreateUserValidates ==
    userResp.status # 0 =>
        IF AcceptableUserBody(userResp.body)
          THEN /\ userResp.status = StatusCreated
               /\ userResp.error = ""
               /\ {"id", "email", "first_name", "last_name"}
                      \subseteq JsonKeys(userResp.data)
               /\ "password" \notin JsonKeys(userResp.data)
               /\ <<"email", userResp.body.email>> \in userResp.data
          ELSE /\ userResp.status = StatusBadRequest
               /\ userResp.error # ""
               /\ userResp.data = {}

C20_Witness ==
    /\ userResp.status = StatusCreated
    /\ Len(userResp.body.password) = 8
    /\ "password" \notin JsonKeys(userResp.data)
    /\ <<"email", "test@example.com">> \in userResp.data

C20_WitnessRejected ==
    /\ userResp.status = StatusBadRequest
    /\ userResp.body.decodes
    /\ Len(userResp.body.password) = 7
    /\ IsEmail(userResp.body.email)
    /\ userResp.body.first_name # "" /\ userResp.body.last_name # ""

(***************************************************************************)
(* SpecMain: the service process from start to exit, with the connection's *)
(* events.                                                                 *)
(***************************************************************************)
NextMain ==
    \/ \E ok \in BOOLEAN : SetupDatabase(ok)
    \/ \E u \in Uuids, connectOk \in BOOLEAN, jsOk \in BOOLEAN :
          MainNewNatsClient(u, connectOk, jsOk)
    \/ SetupNatsClient
    \/ \E libOk \in BOOLEAN : MainSubscribeToAll(libOk)
    \/ SetupGlobalSubscriptions
    \/ \E ok \in BOOLEAN : ServerStart(ok)
    \/ RequestArrives
    \/ RequestDone
    \/ Signal
    \/ ServerStopBegin
    \/ ShutdownTick
    \/ ServerStopReturn
    \/ MainDeferredClose
    \/ DeferredCloseReturn
    \/ DeferredDbClose
    \/ Disconnected
    \/ Reconnected
    \/ ConnClosed

SpecMain == Init /\ [][NextMain]_vars

\* C21: when the signal comes while the server is listening, the NATS client
\* is closed only after server.stop has returned, which it does within
\* ShutdownTimeout seconds with the listener closed, and the database pool
\* is closed only after the NATS client's Close has returned.
C21_ShutdownOrder ==
    [][/\ (proc.listeningAtSignal /\ last.op # "Close" /\ last'.op = "Close") =>
             /\ proc.pc = "stopped"
             /\ proc.server \in {"stopped", "stop_timed_out"}
             /\ proc.waited <= ShutdownTimeout
       /\ (proc.db # "closed" /\ proc'.db = "closed") =>
             /\ last.op = "Close"
             /\ proc.pc = "nats_closed"]_vars

C21_Witness ==
    /\ proc.pc = "exited"
    /\ proc.listeningAtSignal
    /\ proc.server = "stop_timed_out"
    /\ proc.db = "closed"
    /\ conn = "closed"
    /\ last.op = "Close" /\ last.issued

(***************************************************************************)
(* Subscribe, QueueSubscribe and Close statement by statement, each call   *)
(* in a goroutine of its own: c.mu.Lock(), the body, the deferred          *)
(* c.mu.Unlock() at return.  The map assignment c.subscribers[key] = sub   *)
(* is a read of the map followed by a write of the updated map.            *)
(***************************************************************************)
LockedOps == {"Subscribe", "QueueSubscribe", "Close"}

CriticalPcs == {"locked", "store", "write", "unlock"}

ThreadFrame == <<natsClient, conn, js, config, given, pubVars, httpVars, streamVars,
                 consVars>>

\* A goroutine calls one of the three methods.
ThreadCall(t, op, subject, queue) ==
    /\ natsClient = "set"
    /\ threads[t].pc = "idle"
    /\ threads' = [threads EXCEPT ![t] =
          [IdleThread EXCEPT !.pc = "lock", !.op = op,
              !.subject = IF op = "Close" THEN "" ELSE subject,
              !.queue = IF op = "QueueSubscribe" THEN queue ELSE "",
              !.key = IF op = "Subscribe" THEN subject
                      ELSE IF op = "QueueSubscribe" THEN QueueKey(subject, queue)
                      ELSE ""]]
    /\ UNCHANGED <<ThreadFrame, mu, subVars, last>>

\* Mutant: the goroutine enters the body without taking the mutex.
Lock_NoMutex(t) ==
    /\ threads[t].pc = "lock"
    /\ threads' = [threads EXCEPT ![t].pc = "locked"]
    /\ UNCHANGED <<ThreadFrame, mu, subVars, last>>

\* c.mu.Lock()
Lock(t) ==
    /\ threads[t].pc = "lock"
    /\ mu = 0
    /\ mu' = t
    /\ threads' = [threads EXCEPT ![t].pc = "locked"]
    /\ UNCHANGED <<ThreadFrame, subVars, last>>

\* The connection test and the library's subscribe call.
ThreadSubscribe(t, libOk) ==
    /\ threads[t].pc = "locked"
    /\ threads[t].op \in {"Subscribe", "QueueSubscribe"}
    /\ CanSubscribe
    /\ IF NotConnected
         THEN /\ threads' = [threads EXCEPT ![t].pc = "unlock",
                                            ![t].res = "not_connected"]
              /\ UNCHANGED subs
         ELSE IF ~libOk
         THEN /\ threads' = [threads EXCEPT ![t].pc = "unlock",
                                            ![t].res = "subscribe_failed"]
              /\ UNCHANGED subs
         ELSE /\ subs' = Append(subs, NewSub(threads[t].subject, threads[t].queue,
                                             threads[t].op, threads[t].key, FALSE))
              /\ threads' = [threads EXCEPT ![t].pc = "store",
                                            ![t].handle = Len(subs) + 1]
    /\ UNCHANGED <<ThreadFrame, mu, subscribers, last>>

\* c.subscribers[key] = sub: the map is read ...
ThreadStoreRead(t) ==
    /\ threads[t].pc = "store"
    /\ threads' = [threads EXCEPT ![t].pc = "write", ![t].seen = subscribers]
    /\ UNCHANGED <<ThreadFrame, mu, subVars, last>>

\* ... and written back with the entry put in.
ThreadStoreWrite(t) ==
    /\ threads[t].pc = "write"
    /\ subscribers' = MapPut(threads[t].seen, threads[t].key, threads[t].handle)
    /\ threads' = [threads EXCEPT ![t].pc = "unlock", ![t].res = "ok"]
    /\ UNCHANGED <<ThreadFrame, mu, subs, last>>

\* The body of Close.
ThreadClose(t) ==
    /\ threads[t].pc = "locked"
    /\ threads[t].op = "Close"
    /\ IF conn # "nil" /\ conn = "connected"
         THEN /\ conn' = "closed"
              /\ subs' = [h \in DOMAIN subs |-> [subs[h] EXCEPT !.state = "drained"]]
         ELSE UNCHANGED <<conn, subs>>
    /\ threads' = [threads EXCEPT ![t].pc = "unlock", ![t].res = "ok"]
    /\ UNCHANGED <<natsClient, js, config, given, mu, subscribers, pubVars, httpVars,
                   streamVars, consVars, last>>

\* The deferred c.mu.Unlock(), and the return.
Unlock(t) ==
    /\ threads[t].pc = "unlock"
    /\ mu' = IF mu = t THEN 0 ELSE mu
    /\ threads' = [threads EXCEPT ![t].pc = "done"]
    /\ last' = Call(threads[t].op, threads[t].res, threads[t].res = "ok")
    /\ UNCHANGED <<ThreadFrame, subVars>>

(***************************************************************************)
(* SpecMutex: concurrent callers of Subscribe, QueueSubscribe and Close.   *)
(***************************************************************************)
NextMutex ==
    \/ \E t \in Threads, op \in LockedOps, s \in Subjects, q \in Queues :
          ThreadCall(t, op, s, q)
    \/ \E t \in Threads : Lock(t)
    \/ \E t \in Threads, libOk \in BOOLEAN : ThreadSubscribe(t, libOk)
    \/ \E t \in Threads : ThreadStoreRead(t)
    \/ \E t \in Threads : ThreadStoreWrite(t)
    \/ \E t \in Threads : ThreadClose(t)
    \/ \E t \in Threads : Unlock(t)
    \/ Disconnected
    \/ Reconnected

SpecMutex == Init /\ [][NextMutex]_vars

InCriticalSection(t) == threads[t].pc \in CriticalPcs

\* C22: a goroutine inside the body of Subscribe, QueueSubscribe or Close
\* holds the mutex, so no two are inside at once and the registry is read
\* and written only by the holder; every subscribe that has stored its
\* entry finds its key in the registry, whatever other subscribes ran
\* beside it.
C22_RegistryUnderMutex ==
    /\ \A t \in Threads : InCriticalSection(t) => mu = t
    /\ \A t, u \in Threads : (InCriticalSection(t) /\ InCriticalSection(u)) => t = u
    /\ \A t \in Threads :
          (threads[t].res = "ok" /\ threads[t].op # "Close") =>
              \E e \in subscribers : e[1] = threads[t].key

C22_Witness ==
    \E t, u \in Threads :
        /\ threads[t].pc = "done" /\ threads[u].pc = "done"
        /\ threads[t].res = "ok" /\ threads[u].res = "ok"
        /\ threads[t].op = "Subscribe" /\ threads[u].op = "QueueSubscribe"
        /\ threads[t].key # threads[u].key
        /\ {threads[t].key, threads[u].key} \subseteq {e[1] : e \in subscribers}

EnsureSucceeded(res) == res \in {"existing", "created"}

\* The durable consumer the claim describes for a subject of a stream.
DurableConsumer(streamName, subject, consuming) ==
    [cfg |-> [stream |-> streamName, name |-> "consumer_" \o subject,
              filter |-> subject, ackPolicy |-> "explicit"],
     stream |-> streamName, name |-> "consumer_" \o subject,
     consuming |-> consuming]

\* A step that is a call of SubscribeToJetStream which got past its nil test.
JetStreamCallStep ==
    /\ last'.op = "SubscribeToJetStream"
    /\ last'.res # "nil_nil"
    /\ jsMsgs' = jsMsgs
    /\ <<last, streams, lastEnsure, consumers>>' # <<last, streams, lastEnsure, consumers>>

\* C23: SubscribeToJetStream ensures the stream, then creates or updates the
\* durable consumer consumer_subject (filtered to the subject, explicit
\* acknowledgement), then starts consuming.  A failed step is what the call
\* returns and no later step is made: no consumer without the stream, no
\* consumption without the consumer, and the handler gets messages only of
\* a consumer that is consuming.
C23_JetStreamStepOrder ==
    [][/\ JetStreamCallStep =>
             /\ ~EnsureSucceeded(lastEnsure'.res) =>
                   /\ last'.res = lastEnsure'.res
                   /\ consumers' = consumers
             /\ last'.res = "create_consumer_failed" =>
                   /\ EnsureSucceeded(lastEnsure'.res)
                   /\ consumers' = consumers
             /\ last'.res \in {"consume_failed", "ok"} =>
                   /\ EnsureSucceeded(lastEnsure'.res)
                   /\ streams'[lastEnsure'.name] # NoStream
                   /\ \E sub \in Subjects :
                         LET d == DurableConsumer(lastEnsure'.name, sub,
                                                  last'.res = "ok")
                         IN  d \in consumers' /\ consumers' \ {d} \subseteq consumers
             /\ last'.res \in {"js_not_initialized", "create_stream_failed",
                               "stream_info_failed", "create_consumer_failed",
                               "consume_failed", "ok"}
       /\ jsMsgs' # jsMsgs => \E c \in consumers : c.consuming]_vars

C23_Witness ==
    /\ last.op = "SubscribeToJetStream"
    /\ last.res = "consume_failed"
    /\ lastEnsure.res = "created"
    /\ consumers = {DurableConsumer("MESSAGES", "a", FALSE)}
    /\ jsMsgs = <<>>

\* C24: PublishAsync hands the acknowledgement future to its caller whatever
\* the state of the acknowledgement (its return is never held back and does
\* not touch the acknowledgement), and the timeout case of the ack-wait task
\* changes nothing but the task itself: what was sent stays sent, the future
\* stays as it was and the broker can still resolve it afterwards.
TimedOut(f) ==
    /\ futures[f].task = "waiting"
    /\ futures'[f].task = "timeout"

FutureOf(fut) ==
    [subject |-> fut.subject, sent |-> fut.sent, ack |-> fut.ack, ackAt |-> fut.ackAt,
     stream |-> fut.stream, okCh |-> fut.okCh, errCh |-> fut.errCh]

C24_AsyncAckDoesNotBlock ==
    [][\A f \in DOMAIN futures :
        /\ ~futures[f].returned => ENABLED PublishAsyncReturn(f)
        /\ (~futures[f].returned /\ futures'[f].returned)
              => FutureOf(futures'[f]) = FutureOf(futures[f])
        /\ TimedOut(f) =>
              /\ FutureOf(futures'[f]) = FutureOf(futures[f])
              /\ wire' = wire /\ pending' = pending
              /\ futures[f].ack = "pending" =>
                    \A n \in StreamNames :
                        futures[f].subject \in streams'[n] => (ENABLED BrokerAckOk(f, n))']_vars

C24_Witness ==
    \E f \in DOMAIN futures :
        /\ futures[f].returned
        /\ futures[f].task = "timeout"
        /\ futures[f].sent
        /\ futures[f].ack = "pending"
        /\ conn = "connected"
        /\ \E n \in StreamNames : futures[f].subject \in streams[n]

(***************************************************************************)
(* SpecRouter: the environment, Messaging.Router and requests on the       *)
(* router it returned.                                                     *)
(***************************************************************************)
NextRouter ==
    \/ \E v \in EnvValues : Setenv(v)
    \/ Router
    \/ \E method \in Methods, path \in Paths : ServeHTTP(method, path)

SpecRouter == Init /\ [][NextRouter]_vars

ToUpperChar(c) ==
    IF \E i \in 1..Len(LowerLetters) : At(LowerLetters, i) = c
      THEN At(UpperLetters, CHOOSE i \in 1..Len(LowerLetters) : At(LowerLetters, i) = c)
      ELSE c

\* two strings that differ at most in the case of their letters
EqualFold(x, y) ==
    /\ Len(x) = Len(y)
    /\ \A i \in 1..Len(x) : ToUpperChar(At(x, i)) = ToUpperChar(At(y, i))

MessagingHandlers == {"PublishMessage", "SubscribeWebSocket"}

\* C25: a router returned by Messaging.Router serves POST /publish and
\* GET /subscribe/{subject} exactly when APP_ENV, read at that call and
\* compared without regard to case, was "development"; otherwise the router
\* exists and no request on it reaches either handler.  Changing APP_ENV
\* afterwards changes nothing on a router already returned.
C25_RoutesOnlyInDevelopment ==
    router.built =>
        /\ IF EqualFold(router.envAt, "development")
             THEN /\ Dispatch(router.routes, "POST", <<"publish">>) = "PublishMessage"
                  /\ \A subj \in Subjects :
                        Dispatch(router.routes, "GET", <<"subscribe", subj>>)
                            = "SubscribeWebSocket"
             ELSE \A method \in Methods, path \in Paths :
                        Dispatch(router.routes, method, path) \notin MessagingHandlers
        /\ served.method # "" =>
              (served.handler \in MessagingHandlers) =
                  /\ EqualFold(router.envAt, "development")
                  /\ \/ served.method = "POST" /\ served.path = <<"publish">>
                     \/ served.method = "GET" /\ Len(served.path) = 2
                          /\ served.path[1] = "subscribe"

C25_Witness ==
    /\ router.built
    /\ router.envAt = "DEVELOPMENT"
    /\ appEnv = "production"
    /\ served.method = "POST"
    /\ served.handler = "PublishMessage"

C25_WitnessDisabled ==
    /\ router.built
    /\ router.envAt = "production"
    /\ appEnv = "development"
    /\ served.method = "POST" /\ served.path = <<"publish">>
    /\ served.handler = "NotFound"

\* C26: a Subscribe or QueueSubscribe call that fails, because the client is
\* not connected or because the broker refuses the subscription, leaves the
\* registry and the broker's subscriptions exactly as they were.
RegistryOps == {"Subscribe", "QueueSubscribe"}

FailedRegistryCall ==
    /\ last' # last
    /\ last'.op \in RegistryOps
    /\ last'.res # "ok"

C26_FailedSubscribeKeepsRegistry ==
    [][FailedRegistryCall =>
          /\ last'.res \in {"not_connected", "subscribe_failed"}
          /\ subscribers' = subscribers
          /\ subs' = subs]_vars

C26_Witness ==
    /\ last.op = "Subscribe"
    /\ last.res = "subscribe_failed"
    /\ last.connAt = "connected"
    /\ \E e \in subscribers : subs[e[2]].state = "active"

\* C27: every active subscription that NatsClient.Subscribe created is the
\* one the registry holds under its subject: a subscription replaced by a
\* second successful Subscribe on the same subject is no longer active at
\* the broker, so only the latest handler is delivered to.
PlainActive ==
    {h \in DOMAIN subs : subs[h].via = "Subscribe" /\ subs[h].state = "active"}

C27_ResubscribeReplaces ==
    \A h \in PlainActive : <<subs[h].subject, h>> \in subscribers

(***************************************************************************)
(* SpecKeys: Subscribe and QueueSubscribe on subjects and queue names that *)
(* may hold a colon, which NATS allows in both.                            *)
(***************************************************************************)
KeySubjects == {"a", "a:q"}
KeyQueues == {"q", "q:q"}

NextKeys ==
    \/ \E subject \in KeySubjects, libOk \in BOOLEAN : Subscribe(subject, libOk)
    \/ \E subject \in KeySubjects, queue \in KeyQueues, libOk \in BOOLEAN :
          QueueSubscribe(subject, queue, libOk)
    \/ \E h \in 1..MaxSubs, result \in {"ok", "err"} : Deliver(h, result)

SpecKeys == Init /\ [][NextKeys]_vars

\* C28: the registry keys of Subscribe and QueueSubscribe do not collide: a
\* queue subscription and a plain subscription on another subject string
\* have different keys, and so have two queue subscriptions that differ in
\* subject or queue, so that neither overwrites the other's entry.
C28_RegistryKeysCollisionFree ==
    \A h1, h2 \in DOMAIN subs :
        /\ (/\ subs[h1].via = "QueueSubscribe"
            /\ subs[h2].via = "Subscribe"
            /\ subs[h1].subject # subs[h2].subject)
              => subs[h1].key # subs[h2].key
        /\ (/\ subs[h1].via = "QueueSubscribe"
            /\ subs[h2].via = "QueueSubscribe"
            /\ <<subs[h1].subject, subs[h1].queue>> # <<subs[h2].subject, subs[h2].queue>>)
              => subs[h1].key # subs[h2].key

\* C29: an ensure of a stream that existed at the broker when it was called
\* leaves the stream's subject set as it was, whatever its lookup answered:
\* found, or failed for another reason than the stream being absent.
C29_EnsureNeverChangesExisting ==
    lastEnsure.before # NoStream => streams[lastEnsure.name] = lastEnsure.before

\* C30: a Subscribe or QueueSubscribe that follows a Close on the same
\* client does not succeed and adds nothing to the registry, whatever the
\* connection's state was when Close was called.
SubscribeAfterClose ==
    /\ last.op = "Close"
    /\ last'.op \in RegistryOps

C30_NoSubscribeAfterClose ==
    [][SubscribeAfterClose =>
          /\ last'.res # "ok"
          /\ subscribers' = subscribers]_vars

====
